---- MODULE Spec2Model ----
(***************************************************************************)
(* The store-and-forward relay of src/server/routes.ts (lines 1-247): the  *)
(* presence map, the per-recipient pending queues, the delivered-id cache, *)
(* the group directory, the socket.io rooms, and one action per socket     *)
(* event handler and per timer callback.  Node runs every handler and      *)
(* every timer callback to completion on one thread, so each is one atomic *)
(* step.                                                                   *)
(*                                                                         *)
(* Date.now() is an integer clock; the millisecond constants of the source  *)
(* are scaled down to a few ticks.                                         *)
(***************************************************************************)
EXTENDS Integers, Sequences, FiniteSets, TLC

Users == {"A", "B", "C"}
Sockets == {"h1", "h2"}
Groups == {"G"}
Ids == {"m1", "m2"}
Ciphertexts == {"ct1", "ct2"}
Contents == {"pt"}
Undef == "undefined"

\* group:create member lists and register group lists offered to the relay
MemberLists == {<<>>, <<"B">>, <<"A", "B">>, <<"A", "B", "C">>, <<"B", "B">>}
GroupLists == {<<>>, <<"G">>}

MaxMsgs == 2
MaxTime == 6

\* Date.now() counts ticks; the hourly timers are due every 3 ticks and the
\* 24 hour TTL is scaled to one timer period
MESSAGE_TTL == 3
CLEANUP_INTERVAL == 3
DELIVERED_IDS_LIMIT == 1

VARIABLES
  connectedUsers,      \* Map<userId, socketId> in insertion order: Seq of [userId, socketId]
  pendingMessages,     \* Map<userId, PendingMessage[]>: function on the keys present
  groups,              \* Map<groupId, GroupInfo>: function on the keys present
  deliveredMessageIds, \* Set<string>
  rooms,               \* socket.io rooms: socket -> set of room names joined
  conn,                \* transport state of each socket: "none", "open", "closed"
  now,                 \* Date.now()
  nmsg,                \* number of message / group:message events handled so far
  event,               \* the event the last step handled
  emitted,             \* the emit calls of the last step, in order
  nextIdsCleanup,      \* when the setInterval timer of cleanupDeliveredIds is next due
  nextExpiredCleanup,  \* when the setInterval timer of cleanupExpiredMessages is next due
  hist                 \* history of the run, read by the properties only:
                       \*   replaced  <<userId, socketId>> entries a later register overwrote
                       \*   delivered <<userId, message id>> pairs emitted so far
                       \*   seen      ids of the message events handled since the cache was last cleared
                       \*   swept     [uid, to, age] of the records a TTL sweep removed
                       \*   emptied   groups whose last member a group:leave removed

vars == <<connectedUsers, pendingMessages, groups, deliveredMessageIds, rooms,
          conn, now, nmsg, event, emitted, nextIdsCleanup, nextExpiredCleanup, hist>>

timers == <<nextIdsCleanup, nextExpiredCleanup>>

Range(s) == {s[i] : i \in 1..Len(s)}

----------------------------------------------------------------------------
\* connectedUsers: a JavaScript Map keeps its keys in insertion order

HasUser(m, k) == \E i \in 1..Len(m) : m[i].userId = k

ConnectedGet(m, k) ==
  IF HasUser(m, k)
  THEN (CHOOSE e \in Range(m) : e.userId = k).socketId
  ELSE Undef

\* a set call that keeps the entry a key already has
ConnectedSet_KeepFirst(m, k, v) ==
  IF HasUser(m, k) THEN m ELSE Append(m, [userId |-> k, socketId |-> v])

ConnectedSet(m, k, v) ==
  IF HasUser(m, k)
  THEN [i \in 1..Len(m) |-> IF m[i].userId = k THEN [userId |-> k, socketId |-> v] ELSE m[i]]
  ELSE Append(m, [userId |-> k, socketId |-> v])

\* pendingMessages and groups: Maps as functions on the set of keys present
MapDelete(m, k) == [x \in DOMAIN m \ {k} |-> m[x]]
MapSet(m, k, v) == [x \in DOMAIN m \cup {k} |-> IF x = k THEN v ELSE m[x]]

Includes(s, x) == \E i \in 1..Len(s) : s[i] = x

generateMessageId(n) == "srv_" \o ToString(n)

----------------------------------------------------------------------------
\* One emit call: the socket it goes to, the event name and the payload.
\* rcpt, mid and uid are history fields: the user the relay meant to reach,
\* the id and the serial number of the event the payload originates from.
Emission(sock, ev, payload, rcpt, mid, uid) ==
  [sock |-> sock, ev |-> ev, payload |-> payload, rcpt |-> rcpt, mid |-> mid, uid |-> uid]

\* if (msg.groupId): the field is set and is not the empty string
Truthy(rec, f) == f \in DOMAIN rec /\ rec[f] # Undef /\ rec[f] # ""

\* The stored PendingMessage as JavaScript sees it (uid is a history field)
Stored(msg) == [f \in DOMAIN msg \ {"uid"} |-> msg[f]]

\* register, lines 101-113: one queued record replayed to the registering socket
ReplayEmit(h, userId, msg) ==
  IF Truthy(msg, "groupId")
  THEN Emission(h, "group:message",
                [groupId |-> msg.groupId, from |-> msg.from, encrypted |-> msg.encrypted,
                 content |-> msg.content, timestamp |-> msg.timestamp],
                userId, msg.id, msg.uid)
  ELSE Emission(h, "message", Stored(msg), userId, msg.id, msg.uid)

\* a reconcile that resets every declared group to the registering user alone
ReconcileOnRegister_Replace(gr, userGroups, userId) ==
  [g \in DOMAIN gr \cup Range(userGroups) |->
     IF g \in Range(userGroups) THEN [id |-> g, members |-> <<userId>>] ELSE gr[g]]

\* register, lines 84-97: every declared group gains the user, or is created
RECURSIVE ReconcileOnRegister(_, _, _)
ReconcileOnRegister(gr, userGroups, userId) ==
  IF userGroups = <<>> THEN gr
  ELSE LET groupId == Head(userGroups)
           next == IF groupId \in DOMAIN gr
                   THEN IF Includes(gr[groupId].members, userId) THEN gr
                        ELSE [gr EXCEPT ![groupId].members = Append(@, userId)]
                   ELSE MapSet(gr, groupId, [id |-> groupId, members |-> <<userId>>])
       IN ReconcileOnRegister(next, Tail(userGroups), userId)

\* register, lines 99-116: the queue that is replayed, if any
PendingOf(pm, userId) == IF userId \in DOMAIN pm THEN pm[userId] ELSE <<>>

\* a replay that walks the array from its end
ReplayBatch_Reversed(h, userId, pending) ==
  [i \in 1..Len(pending) |-> ReplayEmit(h, userId, pending[Len(pending) + 1 - i])]

ReplayBatch(h, userId, pending) ==
  [i \in 1..Len(pending) |-> ReplayEmit(h, userId, pending[i])]

\* a replay that forgets line 114
AfterReplay_NoDelete(pm, userId) == pm

AfterReplay(pm, userId) ==
  IF Len(PendingOf(pm, userId)) > 0 THEN MapDelete(pm, userId) ELSE pm

Record(ems) == {<<e.rcpt, e.mid>> : e \in {x \in Range(ems) : x.rcpt # Undef}}

\* io.on("connection"), lines 74-75
Connect(h) ==
  /\ conn[h] = "none"
  /\ conn' = [conn EXCEPT ![h] = "open"]
  /\ event' = [type |-> "connection", sock |-> h]
  /\ emitted' = <<>>
  /\ UNCHANGED <<connectedUsers, pendingMessages, groups, deliveredMessageIds, rooms,
                 now, nmsg, hist, timers>>

\* register, line 81: the entry of another socket that the set call overwrites
Overwritten(cu, userId, h) ==
  IF ConnectedGet(cu, userId) \notin {Undef, h} THEN {<<userId, ConnectedGet(cu, userId)>>} ELSE {}

\* socket.on("register"), lines 77-117
Register(h, userId, userGroups) ==
  /\ conn[h] = "open"
  /\ connectedUsers' = ConnectedSet(connectedUsers, userId, h)
  /\ groups' = ReconcileOnRegister(groups, userGroups, userId)
  /\ rooms' = [rooms EXCEPT ![h] = @ \cup Range(userGroups)]
  /\ emitted' = ReplayBatch(h, userId, PendingOf(pendingMessages, userId))
  /\ pendingMessages' = AfterReplay(pendingMessages, userId)
  /\ event' = [type |-> "register", sock |-> h, userId |-> userId, groups |-> userGroups]
  /\ hist' = [hist EXCEPT !.replaced = @ \cup Overwritten(connectedUsers, userId, h),
                         !.delivered = @ \cup Record(emitted'),
                         !.emptied = @ \ Range(userGroups)]
  /\ UNCHANGED <<deliveredMessageIds, conn, now, nmsg, timers>>

\* data.id || generateMessageId()
MessageIdOf(data, n) == IF data.id = Undef \/ data.id = "" THEN generateMessageId(n) ELSE data.id

\* an enqueue that puts the record at the head of the array
Enqueue_AtHead(pm, to, msg) == MapSet(pm, to, <<msg>> \o PendingOf(pm, to))

\* message, lines 140-148: the record pushed on the recipient's array
Enqueue(pm, to, msg) == MapSet(pm, to, Append(PendingOf(pm, to), msg))

\* a relay that looks into the payload and does not forward an empty one
DirectEmits_SkipEmpty(cu, data, messageId, timestamp, uid) ==
  IF ConnectedGet(cu, data.to) # Undef /\ data.encrypted # ""
  THEN <<Emission(ConnectedGet(cu, data.to), "message",
                  [id |-> messageId, from |-> data.from, encrypted |-> data.encrypted,
                   timestamp |-> timestamp],
                  data.to, messageId, uid)>>
  ELSE <<>>

\* message, lines 130-150
DirectEmits(cu, data, messageId, timestamp, uid) ==
  IF ConnectedGet(cu, data.to) # Undef
  THEN <<Emission(ConnectedGet(cu, data.to), "message",
                  [id |-> messageId, from |-> data.from, encrypted |-> data.encrypted,
                   timestamp |-> timestamp],
                  data.to, messageId, uid)>>
  ELSE <<>>

\* a relay that keeps a copy of every message it forwards
DirectPending_KeepsCopy(pm, cu, data, messageId, timestamp, uid) ==
  Enqueue(pm, data.to,
          [id |-> messageId, from |-> data.from, to |-> data.to,
           encrypted |-> data.encrypted, timestamp |-> timestamp, uid |-> uid])

DirectPending(pm, cu, data, messageId, timestamp, uid) ==
  IF ConnectedGet(cu, data.to) # Undef
  THEN pm
  ELSE Enqueue(pm, data.to,
               [id |-> messageId, from |-> data.from, to |-> data.to,
                encrypted |-> data.encrypted, timestamp |-> timestamp, uid |-> uid])

\* a relay that puts the id in the cache in the enqueue branch too
DirectMarks_Always(ids, cu, data, messageId) == ids \cup {messageId}

DirectMarks(ids, cu, data, messageId) ==
  IF ConnectedGet(cu, data.to) # Undef THEN ids \cup {messageId} ELSE ids

\* socket.on("message"), lines 119-151; the handler reads nothing of the socket
\* the event arrives on
Message(data) ==
  /\ \E h \in Sockets : conn[h] = "open"
  /\ nmsg < MaxMsgs
  /\ nmsg' = nmsg + 1
  /\ event' = [type |-> "message", data |-> data,
               messageId |-> MessageIdOf(data, nmsg'), uid |-> nmsg']
  /\ LET messageId == MessageIdOf(data, nmsg') IN
     IF messageId \in deliveredMessageIds
     THEN /\ emitted' = <<>>
          /\ UNCHANGED <<pendingMessages, deliveredMessageIds>>
     ELSE /\ emitted' = DirectEmits(connectedUsers, data, messageId, now, nmsg')
          /\ pendingMessages' = DirectPending(pendingMessages, connectedUsers, data, messageId, now, nmsg')
          /\ deliveredMessageIds' = DirectMarks(deliveredMessageIds, connectedUsers, data, messageId)
  /\ hist' = [hist EXCEPT !.delivered = @ \cup Record(emitted'),
                         !.seen = @ \cup {event'.messageId}]
  /\ UNCHANGED <<connectedUsers, groups, rooms, conn, now, timers>>

\* socket.on("group:create"), lines 153-157
GroupCreate(h, data) ==
  /\ conn[h] = "open"
  /\ groups' = MapSet(groups, data.groupId, [id |-> data.groupId, members |-> data.members])
  /\ rooms' = [rooms EXCEPT ![h] = @ \cup {data.groupId}]
  /\ event' = [type |-> "group:create", sock |-> h, data |-> data]
  /\ emitted' = <<>>
  /\ hist' = [hist EXCEPT !.emptied = @ \ {data.groupId}]
  /\ UNCHANGED <<connectedUsers, pendingMessages, deliveredMessageIds, conn, now, nmsg,
                 timers>>

\* group:join, lines 160-163
JoinGroup(gr, groupId, userId) ==
  IF groupId \in DOMAIN gr /\ ~Includes(gr[groupId].members, userId)
  THEN [gr EXCEPT ![groupId].members = Append(@, userId)]
  ELSE gr

\* socket.on("group:join"), lines 159-166
GroupJoin(h, data) ==
  /\ conn[h] = "open"
  /\ groups' = JoinGroup(groups, data.groupId, data.userId)
  /\ rooms' = [rooms EXCEPT ![h] = @ \cup {data.groupId}]
  /\ event' = [type |-> "group:join", sock |-> h, data |-> data]
  /\ emitted' = <<>>
  /\ UNCHANGED <<connectedUsers, pendingMessages, deliveredMessageIds, conn, now, nmsg,
                 hist, timers>>

\* group:leave, lines 169-175
LeaveGroup(gr, groupId, userId) ==
  IF groupId \in DOMAIN gr
  THEN LET members == SelectSeq(gr[groupId].members, LAMBDA m : m # userId)
       IN IF Len(members) = 0
          THEN MapDelete(gr, groupId)
          ELSE [gr EXCEPT ![groupId].members = members]
  ELSE gr

\* socket.on("group:leave"), lines 168-178
GroupLeave(h, data) ==
  /\ conn[h] = "open"
  /\ groups' = LeaveGroup(groups, data.groupId, data.userId)
  /\ rooms' = [rooms EXCEPT ![h] = @ \ {data.groupId}]
  /\ event' = [type |-> "group:leave", sock |-> h, data |-> data]
  /\ emitted' = <<>>
  /\ hist' = [hist EXCEPT !.emptied =
                 IF /\ data.groupId \in DOMAIN groups \ DOMAIN groups'
                    /\ Includes(groups[data.groupId].members, data.userId)
                 THEN @ \cup {data.groupId} ELSE @]
  /\ UNCHANGED <<connectedUsers, pendingMessages, deliveredMessageIds, conn, now, nmsg,
                 timers>>

\* group:message, lines 196-203 and 222-229: the payload of an immediate emit
GroupPayload(data, messageId, timestamp) ==
  [id |-> messageId, groupId |-> data.groupId, from |-> data.from,
   encrypted |-> data.encrypted, content |-> data.content, timestamp |-> timestamp]

\* a fan-out that forgets the check of line 193
FanOutMember_NoSenderCheck(acc, memberId, cu, data, messageId, timestamp, uid) ==
  IF ConnectedGet(cu, memberId) # Undef
  THEN [acc EXCEPT !.em = Append(@,
          Emission(ConnectedGet(cu, memberId), "group:message",
                   GroupPayload(data, messageId, timestamp), memberId, messageId, uid))]
  ELSE [acc EXCEPT !.pm = Enqueue(@, memberId,
          [id |-> messageId, from |-> data.from, to |-> memberId,
           encrypted |-> data.encrypted, timestamp |-> timestamp,
           groupId |-> data.groupId, content |-> data.content, uid |-> uid])]

\* group:message, lines 193-217: the callback of the forEach, for one member;
\* acc holds the pending map and the emit calls made so far
FanOutMember(acc, memberId, cu, data, messageId, timestamp, uid) ==
  IF memberId = data.from THEN acc
  ELSE IF ConnectedGet(cu, memberId) # Undef
  THEN [acc EXCEPT !.em = Append(@,
          Emission(ConnectedGet(cu, memberId), "group:message",
                   GroupPayload(data, messageId, timestamp), memberId, messageId, uid))]
  ELSE [acc EXCEPT !.pm = Enqueue(@, memberId,
          [id |-> messageId, from |-> data.from, to |-> memberId,
           encrypted |-> data.encrypted, timestamp |-> timestamp,
           groupId |-> data.groupId, content |-> data.content, uid |-> uid])]

\* group:message, lines 192-218: the forEach over the member array
RECURSIVE FanOut(_, _, _, _, _, _, _)
FanOut(members, acc, cu, data, messageId, timestamp, uid) ==
  IF members = <<>> THEN acc
  ELSE FanOut(Tail(members),
              FanOutMember(acc, Head(members), cu, data, messageId, timestamp, uid),
              cu, data, messageId, timestamp, uid)

\* io.to(room).emit, lines 222-229: one emit per open socket that joined the room
RECURSIVE RoomEmits(_, _, _, _, _, _)
RoomEmits(socks, rm, data, messageId, timestamp, uid) ==
  IF socks = <<>> THEN <<>>
  ELSE LET rest == RoomEmits(Tail(socks), rm, data, messageId, timestamp, uid)
       IN IF data.groupId \in rm[Head(socks)]
          THEN <<Emission(Head(socks), "group:message",
                          GroupPayload(data, messageId, timestamp),
                          Undef, messageId, uid)>> \o rest
          ELSE rest

SocketOrder == <<"h1", "h2">>

\* socket.on("group:message"), lines 180-233
GroupMessage(data) ==
  /\ \E h \in Sockets : conn[h] = "open"
  /\ nmsg < MaxMsgs
  /\ nmsg' = nmsg + 1
  /\ event' = [type |-> "group:message", data |-> data,
               messageId |-> MessageIdOf(data, nmsg'), uid |-> nmsg']
  /\ LET messageId == MessageIdOf(data, nmsg') IN
     IF messageId \in deliveredMessageIds
     THEN /\ emitted' = <<>>
          /\ UNCHANGED <<pendingMessages, deliveredMessageIds>>
     ELSE IF data.groupId \in DOMAIN groups
     THEN LET out == FanOut(groups[data.groupId].members,
                            [pm |-> pendingMessages, em |-> <<>>],
                            connectedUsers, data, messageId, now, nmsg')
          IN /\ emitted' = out.em
             /\ pendingMessages' = out.pm
             /\ deliveredMessageIds' = deliveredMessageIds \cup {messageId}
     ELSE /\ emitted' = RoomEmits(SocketOrder, rooms, data, messageId, now, nmsg')
          /\ deliveredMessageIds' = deliveredMessageIds \cup {messageId}
          /\ UNCHANGED pendingMessages
  /\ hist' = [hist EXCEPT !.delivered = @ \cup Record(emitted'),
                         !.seen = @ \cup {event'.messageId}]
  /\ UNCHANGED <<connectedUsers, groups, rooms, conn, now, timers>>

\* a disconnect that forgets the check of line 237
RemoveFirstFor_AnySocket(cu, h) == IF cu = <<>> THEN cu ELSE Tail(cu)

\* disconnect, lines 236-242: the first entry, in insertion order, that holds
\* this socket is deleted; the loop then breaks
RemoveFirstFor(cu, h) ==
  IF \E i \in 1..Len(cu) : cu[i].socketId = h
  THEN LET first == CHOOSE i \in 1..Len(cu) :
                      /\ cu[i].socketId = h
                      /\ \A j \in 1..(i - 1) : cu[j].socketId # h
       IN [i \in 1..(Len(cu) - 1) |-> IF i < first THEN cu[i] ELSE cu[i + 1]]
  ELSE cu

\* a disconnect that also takes the users of the socket out of every group
Disconnect_LeavesGroups(h) ==
  /\ conn[h] = "open"
  /\ conn' = [conn EXCEPT ![h] = "closed"]
  /\ connectedUsers' = RemoveFirstFor(connectedUsers, h)
  /\ rooms' = [rooms EXCEPT ![h] = {}]
  /\ groups' = [g \in DOMAIN groups |->
                  [groups[g] EXCEPT !.members =
                     SelectSeq(@, LAMBDA m : ConnectedGet(connectedUsers, m) # h)]]
  /\ event' = [type |-> "disconnect", sock |-> h]
  /\ emitted' = <<>>
  /\ UNCHANGED <<pendingMessages, deliveredMessageIds, now, nmsg, hist, timers>>

\* socket.on("disconnect"), lines 235-243; socket.io takes a closed socket out
\* of every room
Disconnect(h) ==
  /\ conn[h] = "open"
  /\ conn' = [conn EXCEPT ![h] = "closed"]
  /\ connectedUsers' = RemoveFirstFor(connectedUsers, h)
  /\ rooms' = [rooms EXCEPT ![h] = {}]
  /\ event' = [type |-> "disconnect", sock |-> h]
  /\ emitted' = <<>>
  /\ UNCHANGED <<pendingMessages, groups, deliveredMessageIds, now, nmsg, hist, timers>>

\* a sweep that subtracts the wrong way round and so keeps every record
ValidMessages_Swapped(messages, t) ==
  SelectSeq(messages, LAMBDA msg : msg.timestamp - t < MESSAGE_TTL)

\* cleanupExpiredMessages, line 42: the records a sweep at `now` keeps
ValidMessages(messages, t) == SelectSeq(messages, LAMBDA msg : t - msg.timestamp < MESSAGE_TTL)

\* a sweep that deletes the whole array of a user as soon as one record expired
SweepPending_DropsQueue(pm, t) ==
  [userId \in {u \in DOMAIN pm : ValidMessages(pm[u], t) = pm[u]} |-> pm[userId]]

\* cleanupExpiredMessages, lines 39-49
SweepPending(pm, t) ==
  [userId \in {u \in DOMAIN pm : Len(ValidMessages(pm[u], t)) # 0} |->
     ValidMessages(pm[userId], t)]

\* the records a sweep at t removes, with their age
Removed(pm, t) ==
  UNION {{[uid |-> pm[u][i].uid, to |-> u, age |-> t - pm[u][i].timestamp] :
            i \in {j \in 1..Len(pm[u]) : ~(t - pm[u][j].timestamp < MESSAGE_TTL)}} :
         u \in DOMAIN pm}

\* the timer callback of line 51
cleanupExpiredMessages ==
  /\ now >= nextExpiredCleanup
  /\ nextExpiredCleanup' = nextExpiredCleanup + CLEANUP_INTERVAL
  /\ pendingMessages' = SweepPending(pendingMessages, now)
  /\ event' = [type |-> "cleanupExpiredMessages"]
  /\ emitted' = <<>>
  /\ hist' = [hist EXCEPT !.swept = @ \cup Removed(pendingMessages, now)]
  /\ UNCHANGED <<connectedUsers, groups, deliveredMessageIds, rooms, conn, now, nmsg,
                 nextIdsCleanup>>

\* cleanupDeliveredIds, lines 31-35
ClearedIds(ids) == IF Cardinality(ids) > DELIVERED_IDS_LIMIT THEN {} ELSE ids

\* the timer callback of line 37
cleanupDeliveredIds ==
  /\ now >= nextIdsCleanup
  /\ nextIdsCleanup' = nextIdsCleanup + CLEANUP_INTERVAL
  /\ deliveredMessageIds' = ClearedIds(deliveredMessageIds)
  /\ event' = [type |-> "cleanupDeliveredIds"]
  /\ emitted' = <<>>
  /\ hist' = [hist EXCEPT !.seen = IF deliveredMessageIds' = deliveredMessageIds THEN @ ELSE {}]
  /\ UNCHANGED <<connectedUsers, pendingMessages, groups, rooms, conn, now, nmsg,
                 nextExpiredCleanup>>

\* The clock advances; a timer that is due runs before the clock passes it
Tick ==
  /\ now < MaxTime
  /\ now < nextIdsCleanup
  /\ now < nextExpiredCleanup
  /\ now' = now + 1
  /\ event' = [type |-> "tick"]
  /\ emitted' = <<>>
  /\ UNCHANGED <<connectedUsers, pendingMessages, groups, deliveredMessageIds, rooms,
                 conn, nmsg, hist, timers>>

----------------------------------------------------------------------------
\* Module load, lines 20-23, 37 and 51: empty maps, both timers armed
Init ==
  /\ connectedUsers = <<>>
  /\ pendingMessages = <<>>
  /\ groups = <<>>
  /\ deliveredMessageIds = {}
  /\ rooms = [h \in Sockets |-> {}]
  /\ conn = [h \in Sockets |-> "none"]
  /\ now = 0
  /\ nmsg = 0
  /\ event = [type |-> "load"]
  /\ emitted = <<>>
  /\ nextIdsCleanup = CLEANUP_INTERVAL
  /\ nextExpiredCleanup = CLEANUP_INTERVAL
  /\ hist = [replaced |-> {}, delivered |-> {}, seen |-> {}, swept |-> {}, emptied |-> {}]

\* The events clients may send, every field drawn from the sets above
MessageData == [to : Users, from : Users, encrypted : Ciphertexts, id : Ids \cup {Undef}]
GroupCreateData == [groupId : Groups, members : MemberLists]
GroupMemberData == [groupId : Groups, userId : Users]
GroupMessageData ==
  [groupId : Groups, from : Users, encrypted : Ciphertexts, content : Contents,
   id : Ids \cup {Undef}]

\* The whole relay: every handler and both timers
Next ==
  \/ \E h \in Sockets : Connect(h)
  \/ \E h \in Sockets, userId \in Users, userGroups \in GroupLists : Register(h, userId, userGroups)
  \/ \E data \in MessageData : Message(data)
  \/ \E h \in Sockets, data \in GroupCreateData : GroupCreate(h, data)
  \/ \E h \in Sockets, data \in GroupMemberData : GroupJoin(h, data)
  \/ \E h \in Sockets, data \in GroupMemberData : GroupLeave(h, data)
  \/ \E data \in GroupMessageData : GroupMessage(data)
  \/ \E h \in Sockets : Disconnect(h)
  \/ cleanupExpiredMessages
  \/ cleanupDeliveredIds
  \/ Tick

Spec == Init /\ [][Next]_vars

----------------------------------------------------------------------------
\* The relay is checked on four parts of its event alphabet.  Each part is a
\* set of runs of the whole relay: the handlers are the ones above, applied to
\* fewer of the events.

\* In parts 1, 3 and 4 user A connects on socket h1 and user B on h2
Clients == {<<"h1", "A">>, <<"h2", "B">>}

\* 1. The pending queues under the clock: direct messages from A to B,
\* registrations without groups, and the two timers
QueueMessages == [to : {"B"}, from : {"A"}, encrypted : {"ct1"}, id : Ids]

NextQueue ==
  \/ \E h \in Sockets : Connect(h)
  \/ \E c \in Clients : Register(c[1], c[2], <<>>)
  \/ \E data \in QueueMessages : Message(data)
  \/ \E h \in Sockets : Disconnect(h)
  \/ cleanupExpiredMessages
  \/ cleanupDeliveredIds
  \/ Tick

SpecQueue == Init /\ [][NextQueue]_vars

\* 2. The presence registry: A and B registering on either socket, direct
\* messages to them, disconnects
PresenceUsers == {"A", "B"}
PresenceMessages ==
  [to : PresenceUsers, from : {"C"}, encrypted : Ciphertexts, id : {"m1", Undef}]

NextPresence ==
  \/ \E h \in Sockets : Connect(h)
  \/ \E h \in Sockets, userId \in PresenceUsers : Register(h, userId, <<>>)
  \/ \E data \in PresenceMessages : Message(data)
  \/ \E h \in Sockets : Disconnect(h)

SpecPresence == Init /\ [][NextPresence]_vars

\* 3. The group directory: each client names itself in its group events and
\* may declare its groups when it registers; h1 creates groups; group
\* messages from A, without id as the client of src/client/lib/socket.ts
\* (line 225) sends them
DirectoryMessages ==
  [groupId : Groups, from : {"A"}, encrypted : {"ct1"}, content : Contents, id : {Undef}]

NextDirectory ==
  \/ \E h \in Sockets : Connect(h)
  \/ \E c \in Clients, userGroups \in GroupLists : Register(c[1], c[2], userGroups)
  \/ \E data \in GroupCreateData : GroupCreate("h1", data)
  \/ \E c \in Clients, g \in Groups : GroupJoin(c[1], [groupId |-> g, userId |-> c[2]])
  \/ \E c \in Clients, g \in Groups : GroupLeave(c[1], [groupId |-> g, userId |-> c[2]])
  \/ \E data \in DirectoryMessages : GroupMessage(data)
  \/ \E h \in Sockets : Disconnect(h)

SpecDirectory == Init /\ [][NextDirectory]_vars

\* 4. Delivery and deduplication: group G created with members A, B, C or with
\* A, B; direct messages to B and group messages from A or C under the same ids
FanoutGroups == [groupId : Groups, members : {<<"A", "B", "C">>, <<"A", "B">>}]
FanoutGroupMessages ==
  [groupId : Groups, from : {"A", "C"}, encrypted : {"ct1"}, content : Contents, id : Ids]
FanoutMessages == [to : {"B"}, from : {"A", "C"}, encrypted : {"ct2"}, id : Ids]

NextFanout ==
  \/ \E h \in Sockets : Connect(h)
  \/ \E c \in Clients : Register(c[1], c[2], <<>>)
  \/ \E data \in FanoutMessages : Message(data)
  \/ \E data \in FanoutGroups : GroupCreate("h1", data)
  \/ \E data \in FanoutGroupMessages : GroupMessage(data)
  \/ \E h \in Sockets : Disconnect(h)

SpecFanout == Init /\ [][NextFanout]_vars

\* 5. Events that lack a required field: JavaScript reads the missing field
\* as undefined and the handlers go on with it.  Register events without
\* userId, messages without to, group events without groupId, next to
\* well-formed ones
MalformedUsers == {"A", Undef}
MalformedGroupIds == {"G", Undef}
MalformedMessages == [to : MalformedUsers, from : {"B"}, encrypted : {"ct1"}, id : {"m1"}]
MalformedGroups == [groupId : MalformedGroupIds, members : {<<"A", "B">>}]
MalformedMembers == [groupId : MalformedGroupIds, userId : {"A"}]
MalformedGroupMessages ==
  [groupId : MalformedGroupIds, from : {"B"}, encrypted : {"ct1"}, content : Contents,
   id : {Undef}]

NextMalformed ==
  \/ \E h \in Sockets : Connect(h)
  \/ \E userId \in MalformedUsers : Register("h1", userId, <<>>)
  \/ \E data \in MalformedMessages : Message(data)
  \/ \E data \in MalformedGroups : GroupCreate("h1", data)
  \/ \E data \in MalformedMembers : GroupJoin("h2", data)
  \/ \E data \in MalformedMembers : GroupLeave("h2", data)
  \/ \E data \in MalformedGroupMessages : GroupMessage(data)
  \/ \E h \in Sockets : Disconnect(h)

SpecMalformed == Init /\ [][NextMalformed]_vars

----------------------------------------------------------------------------
\* Properties

Indices(seq) == 1..Len(seq)
\* how many of the emit calls were meant for user m, and how many went to socket h
EmitsFor(ems, m) == Cardinality({k \in Indices(ems) : ems[k].rcpt = m})
EmitsTo(ems, h) == Cardinality({k \in Indices(ems) : ems[k].sock = h})
Absent(cu, u) == ConnectedGet(cu, u) = Undef
IsFresh(e) == e.messageId \notin deliveredMessageIds

\* C1: a direct message for a recipient without presence entry is appended to
\* the recipient's queue with the id, from and encrypted of the event and
\* nothing is emitted; when the recipient registers while the record is still
\* queued, every record whose id is queued once is emitted exactly once, as a
\* message event on the registering socket with that id, from and encrypted,
\* and the recipient has no pending entry when the handler is done.
C1_QueuedThenReplayedOnce ==
  [][ /\ (event'.type = "message" /\ Absent(connectedUsers, event'.data.to) /\ IsFresh(event'))
         => LET before == PendingOf(pendingMessages, event'.data.to)
                after == PendingOf(pendingMessages', event'.data.to)
            IN /\ Len(after) = Len(before) + 1
               /\ SubSeq(after, 1, Len(before)) = before
               /\ after[Len(after)].id = event'.data.id
               /\ after[Len(after)].from = event'.data.from
               /\ after[Len(after)].encrypted = event'.data.encrypted
               /\ emitted' = <<>>
      /\ (event'.type = "register")
         => LET q == PendingOf(pendingMessages, event'.userId)
            IN /\ \A i \in Indices(q) :
                    Cardinality({k \in Indices(q) : q[k].id = q[i].id}) = 1
                    => /\ Cardinality({k \in Indices(emitted') :
                                         /\ "id" \in DOMAIN emitted'[k].payload
                                         /\ emitted'[k].payload.id = q[i].id}) = 1
                       /\ \E j \in Indices(emitted') :
                            /\ emitted'[j].sock = event'.sock
                            /\ emitted'[j].ev = "message"
                            /\ emitted'[j].payload.id = q[i].id
                            /\ emitted'[j].payload.from = q[i].from
                            /\ emitted'[j].payload.encrypted = q[i].encrypted
               /\ event'.userId \notin DOMAIN pendingMessages'
    ]_vars

\* B registers some time after a message was queued for it and receives it
C1_Witness ==
  /\ event.type = "register"
  /\ Len(emitted) = 1
  /\ emitted[1].sock = event.sock
  /\ emitted[1].ev = "message"
  /\ emitted[1].payload.id = "m1"
  /\ emitted[1].payload.timestamp < now
  /\ event.userId \notin DOMAIN pendingMessages

\* C2: an enqueue leaves the records already queued for a user in place and
\* in order, and puts the new one after them; a registration emits the
\* queued records of the user in queue order, direct and group records alike.
C2_ReplayInArrivalOrder ==
  [][ /\ (event'.type \in {"message", "group:message"})
         => \A u \in DOMAIN pendingMessages :
              /\ u \in DOMAIN pendingMessages'
              /\ Len(pendingMessages'[u]) >= Len(pendingMessages[u])
              /\ SubSeq(pendingMessages'[u], 1, Len(pendingMessages[u])) = pendingMessages[u]
      /\ (event'.type = "register")
         => LET q == PendingOf(pendingMessages, event'.userId)
            IN /\ Len(emitted') = Len(q)
               /\ \A i \in Indices(q) :
                    /\ emitted'[i].uid = q[i].uid
                    /\ emitted'[i].payload.from = q[i].from
                    /\ emitted'[i].payload.encrypted = q[i].encrypted
                    /\ emitted'[i].payload.timestamp = q[i].timestamp
    ]_vars

\* B registers and receives a direct message from C and then the group message
\* from A that arrived after it
C2_Witness ==
  /\ event.type = "register"
  /\ Len(emitted) = 2
  /\ emitted[1].ev = "message" /\ emitted[1].payload.from = "C" /\ emitted[1].uid = 1
  /\ emitted[2].ev = "group:message" /\ emitted[2].payload.from = "A" /\ emitted[2].uid = 2

\* C3: a disconnect of one socket leaves the presence entry of every user that
\* is registered on another socket as it is, and a fresh direct message for a
\* user with a presence entry is emitted to the socket of that entry and not
\* queued.
C3_StaleDisconnectKeepsEntry ==
  [][ /\ (event'.type = "disconnect")
         => \A u \in Users :
              ConnectedGet(connectedUsers, u) \notin {Undef, event'.sock}
              => ConnectedGet(connectedUsers', u) = ConnectedGet(connectedUsers, u)
      /\ (event'.type = "message" /\ IsFresh(event') /\ ~Absent(connectedUsers, event'.data.to))
         => /\ Len(emitted') = 1
            /\ emitted'[1].sock = ConnectedGet(connectedUsers, event'.data.to)
            /\ emitted'[1].ev = "message"
            /\ pendingMessages' = pendingMessages
    ]_vars

\* socket h1 disconnects after a user it had registered registered again on
\* h2, and the user is still mapped to h2
C3_Witness ==
  /\ event.type = "disconnect"
  /\ \E u \in Users :
       /\ <<u, event.sock>> \in hist.replaced
       /\ ConnectedGet(connectedUsers, u) \notin {Undef, event.sock}

\* C4: a message or group:message event whose id an earlier event carried,
\* with no clear of the cache in between, emits nothing and queues nothing.
C4_SecondEventIsNoOp ==
  [][ (event'.type \in {"message", "group:message"} /\ event'.messageId \in hist.seen)
      => /\ emitted' = <<>>
         /\ pendingMessages' = pendingMessages
    ]_vars

\* C5: no emission hands a user an id that is in the cache and that the user
\* was handed before, earlier in the run or earlier in the same handler.
C5_NoSecondDeliveryWhileCached ==
  [][ \A j \in Indices(emitted') :
        (emitted'[j].rcpt # Undef /\ emitted'[j].mid \in deliveredMessageIds)
        => /\ <<emitted'[j].rcpt, emitted'[j].mid>> \notin hist.delivered
           /\ \A i \in 1..(j - 1) :
                ~(emitted'[i].rcpt = emitted'[j].rcpt /\ emitted'[i].mid = emitted'[j].mid)
    ]_vars

\* C6: a fresh group:message from A to a group whose member array is A, B, C
\* makes exactly one emit to the socket of each of B and C that has a presence
\* entry and leaves that member's queue alone, appends exactly one record to
\* the queue of each of B and C that has none and emits nothing for it, and
\* neither emits to nor queues for A.
C6_FanOutOncePerOtherMember ==
  [][ (/\ event'.type = "group:message"
       /\ IsFresh(event')
       /\ event'.data.from = "A"
       /\ event'.data.groupId \in DOMAIN groups
       /\ groups[event'.data.groupId].members = <<"A", "B", "C">>)
      => /\ \A m \in {"B", "C"} :
              LET before == PendingOf(pendingMessages, m)
                  after == PendingOf(pendingMessages', m)
              IN IF Absent(connectedUsers, m)
                 THEN /\ EmitsFor(emitted', m) = 0
                      /\ Len(after) = Len(before) + 1
                      /\ SubSeq(after, 1, Len(before)) = before
                      /\ after[Len(after)].id = event'.messageId
                      /\ after[Len(after)].to = m
                      /\ after[Len(after)].groupId = event'.data.groupId
                 ELSE /\ EmitsFor(emitted', m) = 1
                      /\ EmitsTo(emitted', ConnectedGet(connectedUsers, m)) = 1
                      /\ after = before
         /\ EmitsFor(emitted', "A") = 0
         /\ EmitsTo(emitted', ConnectedGet(connectedUsers, "A")) = 0
         /\ PendingOf(pendingMessages', "A") = PendingOf(pendingMessages, "A")
         /\ Len(emitted') = Cardinality({m \in {"B", "C"} : ~Absent(connectedUsers, m)})
    ]_vars

\* A on h1 sends to the group: one emit to B on h2, one record queued for C
C6_Witness ==
  /\ event.type = "group:message"
  /\ event.data.from = "A"
  /\ "G" \in DOMAIN groups
  /\ groups["G"].members = <<"A", "B", "C">>
  /\ ConnectedGet(connectedUsers, "A") = "h1"
  /\ Len(emitted) = 1
  /\ emitted[1].rcpt = "B" /\ emitted[1].sock = "h2"
  /\ "C" \in DOMAIN pendingMessages
  /\ Len(pendingMessages["C"]) = 1
  /\ "A" \notin DOMAIN pendingMessages

\* C7: a group that group:leave events emptied is not in the directory, and a
\* group:message addressed to it emits nothing and queues nothing.
C7_EmptiedGroupHasNoRecipients ==
  [][ (event'.type = "group:message" /\ event'.data.groupId \in hist.emptied)
      => /\ event'.data.groupId \notin DOMAIN groups
         /\ emitted' = <<>>
         /\ pendingMessages' = pendingMessages
    ]_vars

\* C8: a sweep leaves no record older than the TTL in any queue, and a record
\* a sweep removed is in no queue and in no replay afterwards.
C8_SweptNeverDelivered ==
  /\ event.type = "cleanupExpiredMessages"
     => \A u \in DOMAIN pendingMessages : \A i \in Indices(pendingMessages[u]) :
          now - pendingMessages[u][i].timestamp <= MESSAGE_TTL
  /\ \A s \in hist.swept :
       /\ \A i \in Indices(PendingOf(pendingMessages, s.to)) :
            pendingMessages[s.to][i].uid # s.uid
       /\ \A j \in Indices(emitted) :
            ~(emitted[j].rcpt = s.to /\ emitted[j].uid = s.uid)

\* a record older than the TTL was swept from B's queue and B registered later
C8_Witness ==
  /\ event.type = "register"
  /\ \E s \in hist.swept : s.to = event.userId /\ s.age > MESSAGE_TTL

\* C9: no registration replays a record whose age exceeds the TTL.
C9_RegisterSkipsExpired ==
  event.type = "register"
  => \A j \in Indices(emitted) : now - emitted[j].payload.timestamp <= MESSAGE_TTL

\* C10: group:join creates an unknown group with the joining user as its only
\* member, and adds the user to the members of a known group.
C10_JoinCreatesOrAdds ==
  [][ (event'.type = "group:join")
      => LET g == event'.data.groupId
             u == event'.data.userId
         IN IF g \in DOMAIN groups
            THEN /\ g \in DOMAIN groups'
                 /\ Range(groups'[g].members) = Range(groups[g].members) \cup {u}
            ELSE /\ g \in DOMAIN groups'
                 /\ groups'[g].members = <<u>>
    ]_vars

\* C11: in every state the delivered-id cache holds no more ids than its
\* capacity.
C11_CacheWithinCapacity ==
  Cardinality(deliveredMessageIds) <= DELIVERED_IDS_LIMIT

\* C12: the presence map has one entry per userId; a register event sets the
\* entry of its userId to its socket and leaves the others alone; an entry
\* changes in no other way than by a register of its user or by the disconnect
\* of the socket it holds, which removes it; and a direct message for a user
\* with an entry is emitted to the socket of that entry and to no other, once
\* if its id is not in the cache.
C12_LatestRegistrationAddressed ==
  [][ /\ \A i, j \in Indices(connectedUsers') :
           connectedUsers'[i].userId = connectedUsers'[j].userId => i = j
      /\ (event'.type = "register")
         => /\ ConnectedGet(connectedUsers', event'.userId) = event'.sock
            /\ \A u \in Users \ {event'.userId} :
                 ConnectedGet(connectedUsers', u) = ConnectedGet(connectedUsers, u)
      /\ \A u \in Users :
           ConnectedGet(connectedUsers', u) # ConnectedGet(connectedUsers, u)
           => \/ event'.type = "register" /\ event'.userId = u
              \/ /\ event'.type = "disconnect"
                 /\ event'.sock = ConnectedGet(connectedUsers, u)
                 /\ Absent(connectedUsers', u)
      /\ (event'.type = "message" /\ ~Absent(connectedUsers, event'.data.to))
         => /\ \A k \in Indices(emitted') :
                 emitted'[k].sock = ConnectedGet(connectedUsers, event'.data.to)
            /\ IsFresh(event') => Len(emitted') = 1
    ]_vars

\* a user registered on h1 and then on h2; with h1 still open, a message for
\* the user is emitted to h2
C12_Witness ==
  /\ event.type = "message"
  /\ <<event.data.to, "h1">> \in hist.replaced
  /\ conn["h1"] = "open"
  /\ ConnectedGet(connectedUsers, event.data.to) = "h2"
  /\ Len(emitted) = 1
  /\ emitted[1].sock = "h2"

\* C13: a disconnect leaves every pending queue, every group of the directory
\* and the delivered-id cache as they were.
C13_DisconnectTouchesPresenceOnly ==
  [][ (event'.type = "disconnect")
      => /\ pendingMessages' = pendingMessages
         /\ groups' = groups
         /\ deliveredMessageIds' = deliveredMessageIds
    ]_vars

\* h1, on which A is registered, closes while a message is queued for A, the
\* directory holds a group and the cache holds an id; A's entry is gone
C13_Witness ==
  /\ event.type = "disconnect"
  /\ event.sock = "h1"
  /\ Absent(connectedUsers, "A")
  /\ "G" \in DOMAIN groups
  /\ deliveredMessageIds # {}
  /\ "C" \in DOMAIN pendingMessages
  /\ \E m \in Ids : <<"B", m>> \in hist.delivered

\* Payload values put in place of the ones of a run, the empty string among them
OtherPayloads == {"ct0", ""}
PayloadFields == {"encrypted", "content"}
\* a record without its payload fields
Blank(rec) == [f \in DOMAIN rec \ PayloadFields |-> rec[f]]
\* the queues with every payload field replaced by c
Repaint(pm, c) ==
  [u \in DOMAIN pm |->
     [i \in Indices(pm[u]) |->
        [f \in DOMAIN pm[u][i] |-> IF f \in PayloadFields THEN c ELSE pm[u][i][f]]]]
QueueShape(pm) == [u \in DOMAIN pm |-> [i \in Indices(pm[u]) |-> Blank(pm[u][i])]]
EmitShape(ems) ==
  [k \in Indices(ems) |-> <<ems[k].sock, ems[k].ev, ems[k].mid, Blank(ems[k].payload)>>]
HasContent(rec) == "content" \in DOMAIN rec

\* C14: what a handler does to the presence map, the shape of the queues, the
\* cache, the directory and the sequence of (socket, event name, id)
\* emissions is the same when the encrypted and content values of its event
\* and of the queued records are replaced by any others; and the payload of
\* every emission and of every queued record is the payload of the event or
\* of the queued record it comes from, and no step alters a queued record.
C14_BlindRouter ==
  [][ /\ (event'.type = "message")
         => /\ connectedUsers' = connectedUsers /\ groups' = groups
            /\ \A k \in Indices(emitted') :
                 emitted'[k].payload.encrypted = event'.data.encrypted
            /\ \A u \in DOMAIN pendingMessages' : \A i \in Indices(pendingMessages'[u]) :
                 pendingMessages'[u][i].uid = event'.uid
                 => pendingMessages'[u][i].encrypted = event'.data.encrypted
            /\ \A c, c2 \in OtherPayloads :
                 LET d2 == [event'.data EXCEPT !.encrypted = c]
                     pm2 == Repaint(pendingMessages, c2)
                     id2 == MessageIdOf(d2, nmsg')
                 IN /\ id2 = event'.messageId
                    /\ IsFresh(event')
                       => /\ EmitShape(DirectEmits(connectedUsers, d2, id2, now, nmsg'))
                               = EmitShape(emitted')
                          /\ QueueShape(DirectPending(pm2, connectedUsers, d2, id2, now, nmsg'))
                               = QueueShape(pendingMessages')
                          /\ DirectMarks(deliveredMessageIds, connectedUsers, d2, id2)
                               = deliveredMessageIds'
      /\ (event'.type = "group:message")
         => /\ connectedUsers' = connectedUsers /\ groups' = groups
            /\ \A k \in Indices(emitted') :
                 /\ emitted'[k].payload.encrypted = event'.data.encrypted
                 /\ emitted'[k].payload.content = event'.data.content
            /\ \A u \in DOMAIN pendingMessages' : \A i \in Indices(pendingMessages'[u]) :
                 pendingMessages'[u][i].uid = event'.uid
                 => /\ pendingMessages'[u][i].encrypted = event'.data.encrypted
                    /\ pendingMessages'[u][i].content = event'.data.content
            /\ \A c, c2, c3 \in OtherPayloads :
                 LET d2 == [event'.data EXCEPT !.encrypted = c, !.content = c3]
                     pm2 == Repaint(pendingMessages, c2)
                     id2 == MessageIdOf(d2, nmsg')
                 IN /\ id2 = event'.messageId
                    /\ (IsFresh(event') /\ d2.groupId \in DOMAIN groups)
                       => LET out == FanOut(groups[d2.groupId].members,
                                            [pm |-> pm2, em |-> <<>>],
                                            connectedUsers, d2, id2, now, nmsg')
                          IN /\ EmitShape(out.em) = EmitShape(emitted')
                             /\ QueueShape(out.pm) = QueueShape(pendingMessages')
                    /\ (IsFresh(event') /\ d2.groupId \notin DOMAIN groups)
                       => EmitShape(RoomEmits(SocketOrder, rooms, d2, id2, now, nmsg'))
                            = EmitShape(emitted')
      /\ (event'.type = "register")
         => LET q == PendingOf(pendingMessages, event'.userId)
            IN /\ Len(emitted') = Len(q)
               /\ \A i \in Indices(q) :
                    /\ emitted'[i].payload.encrypted = q[i].encrypted
                    /\ HasContent(q[i])
                       => emitted'[i].payload.content = q[i].content
               /\ \A c2 \in OtherPayloads :
                    LET pm2 == Repaint(pendingMessages, c2)
                    IN /\ EmitShape(ReplayBatch(event'.sock, event'.userId,
                                                PendingOf(pm2, event'.userId)))
                            = EmitShape(emitted')
                       /\ QueueShape(AfterReplay(pm2, event'.userId))
                            = QueueShape(pendingMessages')
      /\ \A u \in DOMAIN pendingMessages' : \A i \in Indices(pendingMessages'[u]) :
           (nmsg' = nmsg \/ pendingMessages'[u][i].uid # nmsg')
           => /\ u \in DOMAIN pendingMessages
              /\ pendingMessages'[u][i] \in Range(pendingMessages[u])
    ]_vars

\* B registers and is handed a direct record and a group record with
\* different ciphertexts, the group record with its content
C14_Witness ==
  /\ event.type = "register"
  /\ Len(emitted) = 2
  /\ emitted[1].payload.encrypted # emitted[2].payload.encrypted
  /\ \E k \in Indices(emitted) :
       /\ emitted[k].ev = "group:message"
       /\ emitted[k].payload.content = "pt"

\* an event that lacks its required field
Malformed(e) ==
  \/ e.type = "register" /\ e.userId = Undef
  \/ e.type = "message" /\ e.data.to = Undef
  \/ e.type \in {"group:create", "group:join", "group:leave", "group:message"}
     /\ e.data.groupId = Undef

\* C15: an event that lacks its required field (a register without userId, a
\* message without to, a group event without groupId) leaves the presence
\* map, the queues, the cache and the directory as they were.
C15_MalformedEventDropped ==
  [][ Malformed(event')
      => /\ connectedUsers' = connectedUsers
         /\ pendingMessages' = pendingMessages
         /\ deliveredMessageIds' = deliveredMessageIds
         /\ groups' = groups
    ]_vars

\* C16: the register handler emits a registered event to the socket the
\* register event came from.
C16_RegisteredEmitted ==
  [][ (event'.type = "register")
      => \E k \in Indices(emitted') :
           /\ emitted'[k].ev = "registered"
           /\ emitted'[k].sock = event'.sock
    ]_vars

\* an open socket no register event came from: it holds no presence entry and
\* no entry it held was overwritten
Unregistered(h) ==
  /\ conn[h] = "open"
  /\ \A i \in Indices(connectedUsers) : connectedUsers[i].socketId # h
  /\ \A u \in Users \cup {Undef} : <<u, h>> \notin hist.replaced

\* C17: a group:create, group:join or group:leave event from a socket that has
\* not registered, and a message or group:message event handled while no open
\* socket has registered, emits nothing, queues nothing and leaves the cache
\* and the directory as they were.
C17_UnregisteredIgnored ==
  [][ (\/ /\ event'.type \in {"group:create", "group:join", "group:leave"}
          /\ Unregistered(event'.sock)
       \/ /\ event'.type \in {"message", "group:message"}
          /\ \A h \in Sockets : conn[h] = "open" => Unregistered(h))
      => /\ emitted' = <<>>
         /\ pendingMessages' = pendingMessages
         /\ deliveredMessageIds' = deliveredMessageIds
         /\ groups' = groups
    ]_vars

\* C18: in every state every group of the directory has at least one member.
C18_NoEmptyGroup ==
  \A g \in DOMAIN groups : Len(groups[g].members) > 0

\* C19: a register event removes nobody from any group: every group is still
\* in the directory with all the members it had; the registering user is a
\* member of every group it declared; and the membership of every other user
\* in every group is what it was.
C19_RegisterOnlyAddsMemberships ==
  [][ (event'.type = "register")
      => /\ \A g \in DOMAIN groups :
              /\ g \in DOMAIN groups'
              /\ Range(groups[g].members) \subseteq Range(groups'[g].members)
         /\ \A g \in Range(event'.groups) :
              /\ g \in DOMAIN groups'
              /\ event'.userId \in Range(groups'[g].members)
         /\ \A g \in DOMAIN groups' : \A u \in Range(groups'[g].members) \ {event'.userId} :
              /\ g \in DOMAIN groups
              /\ u \in Range(groups[g].members)
         /\ \A g \in DOMAIN groups' \ Range(event'.groups) :
              g \in DOMAIN groups /\ groups'[g] = groups[g]
    ]_vars

\* A registers declaring G, whose only member was B, and is added after B
C19_Witness ==
  /\ event.type = "register"
  /\ event.userId = "A"
  /\ event.groups = <<"G">>
  /\ "G" \in DOMAIN groups
  /\ groups["G"].members = <<"B", "A">>

\* the serial numbers of the records queued for user u
QueuedUids(pm, u) == {PendingOf(pm, u)[i].uid : i \in Indices(PendingOf(pm, u))}

\* C20: whatever the order of message handlers, register handlers and sweeps,
\* no queued record is lost or doubled.  A message handler keeps what is
\* queued and only appends records of its own event; a register replays
\* exactly the records queued for its user, each once, leaves none of them
\* queued and leaves the other queues alone; a sweep keeps, in order, exactly
\* the records younger than the TTL and removes the others; no other step
\* changes a queue; and no queue holds a record twice.
C20_NoLossNoDuplicate ==
  [][ /\ (event'.type \in {"message", "group:message"})
         => \A u \in DOMAIN pendingMessages' :
              LET before == PendingOf(pendingMessages, u)
                  after == pendingMessages'[u]
              IN /\ Len(after) >= Len(before)
                 /\ SubSeq(after, 1, Len(before)) = before
                 /\ \A i \in (Len(before) + 1)..Len(after) : after[i].uid = event'.uid
      /\ (event'.type \in {"message", "group:message"})
         => DOMAIN pendingMessages \subseteq DOMAIN pendingMessages'
      /\ (event'.type = "register")
         => LET q == PendingOf(pendingMessages, event'.userId)
            IN /\ Len(emitted') = Len(q)
               /\ \A i \in Indices(q) : emitted'[i].uid = q[i].uid
               /\ QueuedUids(pendingMessages', event'.userId) = {}
               /\ \A u \in DOMAIN pendingMessages \ {event'.userId} :
                    u \in DOMAIN pendingMessages' /\ pendingMessages'[u] = pendingMessages[u]
               /\ DOMAIN pendingMessages' \subseteq DOMAIN pendingMessages
      /\ (event'.type = "cleanupExpiredMessages")
         => \A u \in DOMAIN pendingMessages :
              LET young == {i \in Indices(pendingMessages[u]) :
                              now - pendingMessages[u][i].timestamp < MESSAGE_TTL}
                  after == PendingOf(pendingMessages', u)
              IN /\ Len(after) = Cardinality(young)
                 /\ \A i \in Indices(pendingMessages[u]) :
                      IF i \in young
                      THEN after[Cardinality({j \in young : j <= i})] = pendingMessages[u][i]
                      ELSE /\ pendingMessages[u][i].uid \notin QueuedUids(pendingMessages', u)
                           /\ \E s \in hist'.swept :
                                s.uid = pendingMessages[u][i].uid /\ s.to = u
      /\ (event'.type \notin {"message", "group:message", "register", "cleanupExpiredMessages"})
         => pendingMessages' = pendingMessages
      /\ \A u \in DOMAIN pendingMessages' : \A i, j \in Indices(pendingMessages'[u]) :
           pendingMessages'[u][i].uid = pendingMessages'[u][j].uid => i = j
    ]_vars

\* two messages were queued for B; a sweep removed the older one and kept the
\* younger, which B's registration then replayed
C20_Witness ==
  /\ event.type = "register"
  /\ event.userId = "B"
  /\ Len(emitted) = 1
  /\ \E s \in hist.swept : s.to = "B" /\ s.uid # emitted[1].uid
  /\ "B" \notin DOMAIN pendingMessages

\* the members of group g other than user a that have no presence entry
AbsentMembers(g, a) ==
  {m \in Range(groups[g].members) \ {a} : Absent(connectedUsers, m)}

\* C21: every record queued under a user has that user as its to field, and a
\* group:message whose id is not in the cache, to a known group, appends
\* exactly one record to the queue of every absent member other than the
\* sender and leaves every other queue as it was.
C21_OneRecordPerAbsentMember ==
  [][ /\ \A u \in DOMAIN pendingMessages' : \A i \in Indices(pendingMessages'[u]) :
           pendingMessages'[u][i].to = u
      /\ (/\ event'.type = "group:message"
          /\ IsFresh(event')
          /\ event'.data.groupId \in DOMAIN groups)
         => LET absent == AbsentMembers(event'.data.groupId, event'.data.from)
            IN /\ \A m \in absent :
                    LET before == PendingOf(pendingMessages, m)
                        after == PendingOf(pendingMessages', m)
                    IN /\ Len(after) = Len(before) + 1
                       /\ SubSeq(after, 1, Len(before)) = before
                       /\ after[Len(after)].uid = event'.uid
               /\ \A u \in DOMAIN pendingMessages' \ absent :
                    u \in DOMAIN pendingMessages /\ pendingMessages'[u] = pendingMessages[u]
    ]_vars

\* C22: a record emitted to a user by a message or group:message handler is
\* not put in that user's queue, and after a register handler the user has no
\* queue and none of the records replayed is queued anywhere; the presence
\* map and the directory hold no message.
C22_NoCopyAfterDelivery ==
  [][ /\ (event'.type \in {"message", "group:message"})
         => \A k \in Indices(emitted') :
              emitted'[k].rcpt # Undef
              => emitted'[k].uid \notin QueuedUids(pendingMessages', emitted'[k].rcpt)
      /\ (event'.type = "register")
         => /\ event'.userId \notin DOMAIN pendingMessages'
            /\ \A k \in Indices(emitted') : \A u \in DOMAIN pendingMessages' :
                 \A i \in Indices(pendingMessages'[u]) :
                   ~(pendingMessages'[u][i].uid = emitted'[k].uid /\ pendingMessages'[u][i].to = event'.userId)
    ]_vars

\* B registers and is handed a queued message; afterwards B has no queue and
\* the id of the message is not in the cache, where the id of a message
\* delivered at once sits
C22_Witness ==
  /\ event.type = "register"
  /\ event.userId = "B"
  /\ Len(emitted) = 1
  /\ emitted[1].mid \notin deliveredMessageIds
  /\ deliveredMessageIds # {}
  /\ "B" \notin DOMAIN pendingMessages

\* C23: a message event whose id is not in the cache does one of two things.
\* If the recipient has a presence entry: one emit, to the socket of the
\* entry, the id is added to the cache and no queue changes.  If it has none:
\* one record is appended at the tail of the recipient's queue, nothing is
\* emitted and the cache stays as it is.
C23_DeliverOrEnqueue ==
  [][ (event'.type = "message" /\ IsFresh(event'))
      => LET to == event'.data.to
         IN IF ~Absent(connectedUsers, to)
            THEN /\ Len(emitted') = 1
                 /\ emitted'[1].sock = ConnectedGet(connectedUsers, to)
                 /\ emitted'[1].ev = "message"
                 /\ emitted'[1].payload.id = event'.messageId
                 /\ deliveredMessageIds' = deliveredMessageIds \cup {event'.messageId}
                 /\ pendingMessages' = pendingMessages
            ELSE /\ emitted' = <<>>
                 /\ deliveredMessageIds' = deliveredMessageIds
                 /\ DOMAIN pendingMessages' = DOMAIN pendingMessages \cup {to}
                 /\ \A u \in DOMAIN pendingMessages \ {to} :
                      pendingMessages'[u] = pendingMessages[u]
                 /\ Len(pendingMessages'[to]) = Len(PendingOf(pendingMessages, to)) + 1
                 /\ SubSeq(pendingMessages'[to], 1, Len(PendingOf(pendingMessages, to)))
                      = PendingOf(pendingMessages, to)
                 /\ pendingMessages'[to][Len(pendingMessages'[to])].id = event'.messageId
    ]_vars

\* a second message is queued behind the first for a user without presence
\* entry, while another user is registered; the cache is still empty
C23_Witness ==
  /\ event.type = "message"
  /\ Absent(connectedUsers, event.data.to)
  /\ connectedUsers # <<>>
  /\ Len(PendingOf(pendingMessages, event.data.to)) = 2
  /\ emitted = <<>>
  /\ deliveredMessageIds = {}

\* C24: a registration replays a queued record that has a groupId as a
\* group:message event carrying id, groupId, from, encrypted, content and
\* timestamp with the values of the record, and a record without groupId as
\* a message event carrying id, from, encrypted and timestamp.
C24_ReplayCarriesSameFields ==
  [][ (event'.type = "register")
      => LET q == PendingOf(pendingMessages, event'.userId)
         IN /\ Len(emitted') = Len(q)
            /\ \A i \in Indices(q) :
                 LET fields == IF Truthy(q[i], "groupId")
                               THEN {"id", "groupId", "from", "encrypted", "content", "timestamp"}
                               ELSE {"id", "from", "encrypted", "timestamp"}
                 IN /\ emitted'[i].ev = IF Truthy(q[i], "groupId") THEN "group:message" ELSE "message"
                    /\ fields \subseteq DOMAIN emitted'[i].payload
                    /\ \A f \in fields : emitted'[i].payload[f] = q[i][f]
    ]_vars

\* a direct record or emission, as opposed to a group one
IsDirect(rec) == ~Truthy(rec, "groupId")

\* C25: direct messages of one sender to one recipient reach the recipient in
\* the order the relay handled them.  Whenever a direct message is emitted to
\* a user, no earlier direct message of the same sender is still queued for
\* that user; the emissions of one handler to one user are in the order of
\* their events; and every queue is in the order of the events.
C25_PairwiseFifo ==
  [][ /\ \A k \in Indices(emitted') :
           (emitted'[k].ev = "message" /\ emitted'[k].rcpt # Undef)
           => /\ \A i \in Indices(PendingOf(pendingMessages', emitted'[k].rcpt)) :
                   LET rec == pendingMessages'[emitted'[k].rcpt][i]
                   IN (IsDirect(rec) /\ rec.from = emitted'[k].payload.from)
                      => rec.uid > emitted'[k].uid
              /\ \A l \in Indices(emitted') :
                   (/\ k < l
                    /\ emitted'[l].ev = "message"
                    /\ emitted'[l].rcpt = emitted'[k].rcpt
                    /\ emitted'[l].payload.from = emitted'[k].payload.from)
                   => emitted'[k].uid < emitted'[l].uid
      /\ \A u \in DOMAIN pendingMessages' : \A i, j \in Indices(pendingMessages'[u]) :
           i < j => pendingMessages'[u][i].uid < pendingMessages'[u][j].uid
    ]_vars

\* the second message from A is emitted to B at once, after the first, which
\* had been queued, was replayed to B by its registration
C25_Witness ==
  /\ event.type = "message"
  /\ event.uid = 2
  /\ Len(emitted) = 1
  /\ emitted[1].rcpt = "B"
  /\ \E m \in Ids \ {event.messageId} :
       /\ <<"B", m>> \in hist.delivered
       /\ m \notin deliveredMessageIds

\* C26: a sweep keeps every record whose age is at most the TTL, one whose
\* age equals the TTL included, in the order they had, and removes the
\* others; afterwards no user has an empty queue; the presence map, the
\* directory and the cache are as they were.
C26_SweepRemovesOlderThanTtl ==
  [][ (event'.type = "cleanupExpiredMessages")
      => /\ \A u \in DOMAIN pendingMessages :
              LET kept == {i \in Indices(pendingMessages[u]) :
                             now - pendingMessages[u][i].timestamp <= MESSAGE_TTL}
                  after == PendingOf(pendingMessages', u)
              IN /\ Len(after) = Cardinality(kept)
                 /\ \A i \in kept :
                      after[Cardinality({j \in kept : j <= i})] = pendingMessages[u][i]
         /\ \A u \in DOMAIN pendingMessages' : Len(pendingMessages'[u]) > 0
         /\ connectedUsers' = connectedUsers
         /\ groups' = groups
         /\ deliveredMessageIds' = deliveredMessageIds
    ]_vars

\* C27: a group:message is not emitted to the socket its sender is registered
\* on and no record is queued for its sender, whether or not the directory
\* knows the group.
C27_NeverBackToSender ==
  [][ (event'.type = "group:message")
      => /\ \A k \in Indices(emitted') :
              /\ emitted'[k].rcpt # event'.data.from
              /\ emitted'[k].sock # ConnectedGet(connectedUsers, event'.data.from)
         /\ PendingOf(pendingMessages', event'.data.from)
              = PendingOf(pendingMessages, event'.data.from)
    ]_vars

\* C28: in every state the socket of every presence entry is open.
C28_EntriesReferToOpenSockets ==
  \A i \in Indices(connectedUsers) : conn[connectedUsers[i].socketId] = "open"

\* C29: in every state no group's member array lists a user twice.
C29_NoDuplicateMembers ==
  \A g \in DOMAIN groups : \A i, j \in Indices(groups[g].members) :
    groups[g].members[i] = groups[g].members[j] => i = j

\* C30: a message event is not suppressed unless its id was handed to, or is
\* queued for, its own recipient: if neither is the case the event is emitted
\* or queued.
C30_SuppressedOnlyForSameRecipient ==
  [][ (/\ event'.type = "message"
       /\ <<event'.data.to, event'.messageId>> \notin hist.delivered
       /\ \A i \in Indices(PendingOf(pendingMessages, event'.data.to)) :
            pendingMessages[event'.data.to][i].id # event'.messageId)
      => \/ emitted' # <<>>
         \/ pendingMessages' # pendingMessages
    ]_vars

====
